---- MODULE Spec2Model ----
(***************************************************************************)
(* Model of doc/OldFiles/audio_classifier_tutorial.ipynb: the              *)
(* UrbanSoundDataset accessor, the shape arithmetic of Net.forward and the *)
(* train/test epoch loop.                                                  *)
(*                                                                         *)
(* Tensors are functions over 0..n-1.  Amplitudes are integers: the        *)
(* values torchaudio.load returns are opaque to the code, which only       *)
(* copies and averages them.                                               *)
(***************************************************************************)
EXTENDS Integers, Sequences, FiniteSets, TLC

(***************************************************************************)
(* Program constants.                                                      *)
(***************************************************************************)
SrcLen == 160000
OutLen == 32000
Stride == 5
BatchSize == 128
NumClasses == 10
\* lr = 0.01 in units of 1e-6; gamma = 0.1 as a division by GammaDiv.
BaseLr == 10000
StepSize == 20
GammaDiv == 10
\* range(1, 11)
FirstEpoch == 1
StopEpoch == 11
MsgEpoch == 31
log_interval == 20

(***************************************************************************)
(* Bounds of the model.                                                    *)
(***************************************************************************)
MaxRows == 2
MaxDelta == 1
MaxShort == 1
MaxBase == 1
MaxTrainBatches == 2
MaxTestBatches == 2
MaxShift == 1
MaxPattern == 2
MaxNetBatch == 2
MaxNetDelta == 1
MaxHalvings == 3

VARIABLES
    \* UrbanSoundDataset
    csvData, corpus, folderList, file_names, labels, folders, row, ds_pc, item

ds_vars == <<csvData, corpus, folderList, file_names, labels, folders, row, ds_pc,
             item>>
    \* model, optimizer, scheduler and the epoch loop
VARIABLES
    train_n, test_n, epoch, pc, batch_idx, model, grad, output, loss, lr,
    opt_steps, last_epoch, correct, shift, stdout,
    \* history: the statements run on the batch, the prediction pattern of each
    \* test batch, the phases completed
    ops, pred_log, phases

loop_vars == <<train_n, test_n, epoch, pc, batch_idx, model, grad, output, loss, lr,
               opt_steps, last_epoch, correct, shift, stdout, ops, pred_log, phases>>
    \* Net.forward: the input's shape, the shape of x, the next statement of
    \* forward, and the shapes x has had
VARIABLES net_in, x, fpc, trace

net_vars == <<net_in, x, fpc, trace>>
vars == <<ds_vars, loop_vars, net_vars>>

\* A fresh Net(): training mode, the initial weights, no batch counted.
Net == [training |-> TRUE, params |-> <<>>, tracked |-> 0]
NoTensor == [kind |-> "none"]
NoItem == [kind |-> "none"]
\* The value of test()'s local correct while no call of test() is active.
Unbound == 0 - 1

\* The parts of the notebook a specification does not run.
Idle_Data ==
    /\ csvData = <<>> /\ corpus = {} /\ folderList = {} /\ file_names = <<>>
    /\ labels = <<>> /\ folders = <<>> /\ row = 0 /\ ds_pc = "idle" /\ item = NoItem

Idle_Loop ==
    /\ train_n = 0 /\ test_n = 0 /\ epoch = 0 /\ pc = "idle" /\ batch_idx = 0
    /\ model = Net /\ grad = <<>> /\ output = NoTensor /\ loss = NoTensor
    /\ lr = BaseLr /\ opt_steps = 0 /\ last_epoch = 0 /\ correct = Unbound /\ shift = 0
    /\ stdout = [kind |-> "none"] /\ ops = <<>> /\ pred_log = <<>> /\ phases = <<>>

Idle_Net == net_in = <<>> /\ x = <<>> /\ fpc = 0 /\ trace = <<>>

RECURSIVE Pow(_, _)
Pow(b, k) == IF k = 0 THEN 1 ELSE b * Pow(b, k - 1)

Min(a, b) == IF a < b THEN a ELSE b

(***************************************************************************)
(* Net: the modules of __init__ and the statements of forward.  A shape is *)
(* <<batch, channels, length>>.                                            *)
(***************************************************************************)
Modules ==
    [conv1   |-> [kind |-> "Conv1d", cin |-> 1, cout |-> 128, k |-> 80, stride |-> 4],
     bn1     |-> [kind |-> "BatchNorm1d", c |-> 128],
     pool1   |-> [kind |-> "MaxPool1d", k |-> 4],
     conv2   |-> [kind |-> "Conv1d", cin |-> 128, cout |-> 128, k |-> 3, stride |-> 1],
     bn2     |-> [kind |-> "BatchNorm1d", c |-> 128],
     pool2   |-> [kind |-> "MaxPool1d", k |-> 4],
     conv3   |-> [kind |-> "Conv1d", cin |-> 128, cout |-> 256, k |-> 3, stride |-> 1],
     bn3     |-> [kind |-> "BatchNorm1d", c |-> 256],
     pool3   |-> [kind |-> "MaxPool1d", k |-> 4],
     conv4   |-> [kind |-> "Conv1d", cin |-> 256, cout |-> 512, k |-> 3, stride |-> 1],
     bn4     |-> [kind |-> "BatchNorm1d", c |-> 512],
     pool4   |-> [kind |-> "MaxPool1d", k |-> 4],
     avgPool |-> [kind |-> "AvgPool1d", k |-> 30],
     fc1     |-> [kind |-> "Linear", cin |-> 512, cout |-> 10]]

forward ==
    <<"conv1", "bn1", "pool1", "conv2", "bn2", "pool2", "conv3", "bn3", "pool3",
      "conv4", "bn4", "pool4", "avgPool", "permute", "fc1", "log_softmax">>

ShapeError == <<"RuntimeError">>

\* Output length of a convolution without padding or dilation.
ConvOut(l, k, stride) == (l - k) \div stride + 1
\* Mutant of PoolOut: ceil_mode = True.
PoolOut_Ceil(l, k) == (l - k + k - 1) \div k + 1
\* Output length of MaxPool1d(k) / AvgPool1d(k): stride k, ceil_mode False.
PoolOut(l, k) == (l - k) \div k + 1

\* The shape a module returns for an input of shape sh.
Apply(m, sh) ==
    CASE m.kind = "Conv1d" ->
            IF sh[2] # m.cin \/ sh[3] < m.k THEN ShapeError
            ELSE <<sh[1], m.cout, ConvOut(sh[3], m.k, m.stride)>>
      [] m.kind = "BatchNorm1d" ->
            IF sh[2] # m.c THEN ShapeError ELSE sh
      [] m.kind \in {"MaxPool1d", "AvgPool1d"} ->
            IF sh[3] < m.k THEN ShapeError ELSE <<sh[1], sh[2], PoolOut(sh[3], m.k)>>
      [] m.kind = "Linear" ->
            IF sh[3] # m.cin THEN ShapeError ELSE <<sh[1], sh[2], m.cout>>

\* One statement of forward applied to shape sh.
Statement(name, sh) ==
    CASE name = "permute" -> <<sh[1], sh[3], sh[2]>>
      [] name = "log_softmax" -> sh
      [] OTHER -> Apply(Modules[name], sh)

NetLens ==
    { OutLen + d : d \in (0 - MaxNetDelta)..MaxNetDelta }
      \cup { OutLen * 2 } \cup { OutLen \div Pow(2, j) : j \in 1..MaxHalvings }

Init_Net ==
    /\ Idle_Data
    /\ Idle_Loop
    /\ net_in \in { <<b, 1, l>> : b \in 1..MaxNetBatch, l \in NetLens }
    /\ x = net_in
    /\ fpc = 1
    /\ trace = <<net_in>>

\* Lines 270-284: the next statement of forward.
ForwardStep ==
    /\ fpc \in 1..(Len(forward) - 1)
    /\ x # ShapeError
    /\ x' = Statement(forward[fpc], x)
    /\ trace' = Append(trace, x')
    /\ fpc' = fpc + 1
    /\ UNCHANGED <<ds_vars, loop_vars, net_in>>

\* Line 285: return F.log_softmax(x, dim = 2).
ForwardReturn ==
    /\ fpc = Len(forward)
    /\ x # ShapeError
    /\ x' = Statement(forward[fpc], x)
    /\ trace' = Append(trace, x')
    /\ fpc' = fpc + 1
    /\ UNCHANGED <<ds_vars, loop_vars, net_in>>

Next_Net == ForwardStep \/ ForwardReturn

SpecNet == Init_Net /\ [][Next_Net]_vars

(***************************************************************************)
(* The model object, the optimizer and the scheduler.                      *)
(*                                                                         *)
(* The parameters are the sequence of updates applied to the initial       *)
(* weights: any two different update histories are different parameters.   *)
(* A gradient is the sequence of losses back-propagated into .grad since   *)
(* it was last cleared; a loss is tagged with the batch it was computed    *)
(* on.  tracked is BatchNorm's num_batches_tracked buffer.                 *)
(***************************************************************************)
\* StepLR.get_lr: base_lr * gamma ** (last_epoch // step_size).
StepLR(e) == BaseLr \div Pow(GammaDiv, e \div StepSize)

\* len(DataLoader) with drop_last = False, and the rows of batch b.
NumBatches(n) == (n + BatchSize - 1) \div BatchSize
BatchLen(n, b) == Min(BatchSize, n - b * BatchSize)

\* The test sampler's permutation (shuffle = True): position k of the epoch's
\* order holds sample Perm(n, sh, k).
Perm(n, sh, k) == (k + sh) % n
TestBatch_(n, sh, b) ==
    { Perm(n, sh, k) : k \in (b * BatchSize)..(b * BatchSize + BatchLen(n, b) - 1) }

\* test_set.labels[i], and the arg-max class of the network's output for
\* sample i when the network computes prediction pattern q.
Label(i) == i % NumClasses
Pred(q, i) ==
    IF q = 0 THEN Label(i)
    ELSE IF i % q = 0 THEN (Label(i) + 1) % NumClasses ELSE Label(i)

\* '{:.0f}'.format(100. * num / den): round half to even.
Percent(num, den) ==
    LET fl == (100 * num) \div den
        r2 == 2 * ((100 * num) % den)
    IN  IF r2 < den THEN fl
        ELSE IF r2 > den THEN fl + 1
        ELSE IF fl % 2 = 0 THEN fl ELSE fl + 1

TrainSizes == {0, 1} \cup { BatchSize * k + d : k \in 1..(MaxTrainBatches - 1), d \in {0, 1} }
TestSizes == {0, 1} \cup { BatchSize * k + d : k \in 1..(MaxTestBatches - 1), d \in {0, 1} }
                \cup { BatchSize * MaxTestBatches - 1 }

\* Lines 287, 310-311, 407: the model, the optimizer (lr = 0.01) and the
\* scheduler, whose constructor takes the initial step to last_epoch = 0.
Init ==
    /\ Idle_Data
    /\ Idle_Net
    /\ train_n \in TrainSizes
    /\ test_n \in TestSizes
    /\ epoch = FirstEpoch
    /\ pc = "epoch"
    /\ batch_idx = 0
    /\ model = Net
    /\ grad = <<>>
    /\ output = NoTensor
    /\ loss = NoTensor
    /\ lr = StepLR(0)
    /\ opt_steps = 0
    /\ last_epoch = 0
    /\ correct = Unbound
    /\ shift = 0
    /\ stdout = [kind |-> "none"]
    /\ ops = <<>>
    /\ pred_log = <<>>
    /\ phases = <<>>

\* Lines 408-411: the loop test, the (never taken) epoch == 31 message and
\* scheduler.step().
EpochHead ==
    /\ pc = "epoch"
    /\ IF epoch >= StopEpoch
       THEN /\ pc' = "done"
            /\ UNCHANGED <<last_epoch, lr, stdout>>
       ELSE /\ stdout' = IF epoch = MsgEpoch THEN [kind |-> "round"] ELSE stdout
            /\ last_epoch' = last_epoch + 1
            /\ lr' = StepLR(last_epoch + 1)
            /\ pc' = "train"
    /\ UNCHANGED <<ds_vars, net_vars, train_n, test_n, epoch, batch_idx, model, grad, output,
                   loss, opt_steps, correct, shift, ops, pred_log, phases>>

\* Lines 333-335: model.train() and the iterator over train_loader.
TrainBegin ==
    /\ pc = "train"
    /\ model' = [model EXCEPT !.training = TRUE]
    /\ batch_idx' = 0
    /\ ops' = <<>>
    /\ pc' = "train_loop"
    /\ UNCHANGED <<ds_vars, net_vars, train_n, test_n, epoch, grad, output, loss, lr, opt_steps,
                   last_epoch, correct, shift, stdout, pred_log, phases>>

\* Mutant of ZeroGrad: the gradients are not cleared.
ZeroGrad_Keep ==
    /\ pc = "train_loop"
    /\ batch_idx < NumBatches(train_n)
    /\ ops' = Append(ops, "zero_grad")
    /\ pc' = "forward"
    /\ UNCHANGED <<ds_vars, net_vars, train_n, test_n, epoch, batch_idx, model, grad,
                   output, loss, lr, opt_steps, last_epoch, correct, shift, stdout,
                   pred_log, phases>>

\* Line 336: the next batch is taken and optimizer.zero_grad() clears .grad.
ZeroGrad ==
    /\ pc = "train_loop"
    /\ batch_idx < NumBatches(train_n)
    /\ grad' = <<>>
    /\ ops' = Append(ops, "zero_grad")
    /\ pc' = "forward"
    /\ UNCHANGED <<ds_vars, net_vars, train_n, test_n, epoch, batch_idx, model, output, loss, lr,
                   opt_steps, last_epoch, correct, shift, stdout, pred_log, phases>>

\* Lines 337-341: output = model(data); in training mode batch-norm counts
\* the batch.
Forward ==
    /\ pc = "forward"
    /\ output' = [kind |-> "output", epoch |-> epoch, batch |-> batch_idx,
                  rows |-> BatchLen(train_n, batch_idx),
                  version |-> Len(model.params)]
    /\ model' = IF model.training
                THEN [model EXCEPT !.tracked = model.tracked + 1]
                ELSE model
    /\ ops' = Append(ops, "forward")
    /\ pc' = "nll_loss"
    /\ UNCHANGED <<ds_vars, net_vars, train_n, test_n, epoch, batch_idx, grad, loss, lr, opt_steps,
                   last_epoch, correct, shift, stdout, pred_log, phases>>

\* Line 342: loss = F.nll_loss(output[0], target).
NllLoss ==
    /\ pc = "nll_loss"
    /\ loss' = [kind |-> "loss", epoch |-> output.epoch, batch |-> output.batch,
                version |-> output.version]
    /\ ops' = Append(ops, "nll_loss")
    /\ pc' = "backward"
    /\ UNCHANGED <<ds_vars, net_vars, train_n, test_n, epoch, batch_idx, model, grad, output, lr,
                   opt_steps, last_epoch, correct, shift, stdout, pred_log, phases>>

\* Line 343: loss.backward() adds the loss's gradient to .grad.
Backward ==
    /\ pc = "backward"
    /\ grad' = Append(grad, [epoch |-> loss.epoch, batch |-> loss.batch])
    /\ ops' = Append(ops, "backward")
    /\ pc' = "step"
    /\ UNCHANGED <<ds_vars, net_vars, train_n, test_n, epoch, batch_idx, model, output, loss, lr,
                   opt_steps, last_epoch, correct, shift, stdout, pred_log, phases>>

\* Line 344: optimizer.step() updates the parameters from .grad at the
\* group's learning rate.
OptimizerStep ==
    /\ pc = "step"
    /\ model' = [model EXCEPT !.params = Append(@, [grad |-> grad, lr |-> lr])]
    /\ opt_steps' = opt_steps + 1
    /\ ops' = Append(ops, "step")
    /\ pc' = "log"
    /\ UNCHANGED <<ds_vars, net_vars, train_n, test_n, epoch, batch_idx, grad, output, loss, lr,
                   last_epoch, correct, shift, stdout, pred_log, phases>>

\* Lines 345-348: the progress line every log_interval batches, then the
\* next iteration.
Log ==
    /\ pc = "log"
    /\ stdout' = IF batch_idx % log_interval = 0
                 THEN [kind |-> "train", epoch |-> epoch,
                       seen |-> batch_idx * output.rows, total |-> train_n,
                       percent |-> Percent(batch_idx, NumBatches(train_n))]
                 ELSE stdout
    /\ batch_idx' = batch_idx + 1
    /\ ops' = <<>>
    /\ pc' = "train_loop"
    /\ UNCHANGED <<ds_vars, net_vars, train_n, test_n, epoch, model, grad, output, loss, lr,
                   opt_steps, last_epoch, correct, shift, pred_log, phases>>

\* Line 335: train_loader is exhausted; train(model, epoch) returns.
TrainEnd ==
    /\ pc = "train_loop"
    /\ batch_idx >= NumBatches(train_n)
    /\ phases' = Append(phases, <<"train", epoch>>)
    /\ pc' = "test"
    /\ UNCHANGED <<ds_vars, net_vars, train_n, test_n, epoch, batch_idx, model, grad, output, loss,
                   lr, opt_steps, last_epoch, correct, shift, stdout, ops, pred_log>>

\* Mutant of TestBegin: correct is not reset.
TestBegin_NoReset(sh) ==
    /\ pc = "test"
    /\ model' = [model EXCEPT !.training = FALSE]
    /\ shift' = sh
    /\ batch_idx' = 0
    /\ pred_log' = <<>>
    /\ pc' = "test_loop"
    /\ UNCHANGED <<ds_vars, net_vars, train_n, test_n, epoch, grad, output, loss, lr,
                   opt_steps, last_epoch, correct, stdout, ops, phases>>

\* Lines 371-374: model.eval(), correct = 0 and the iterator over
\* test_loader, which draws the epoch's order.
TestBegin(sh) ==
    /\ pc = "test"
    /\ model' = [model EXCEPT !.training = FALSE]
    /\ correct' = 0
    /\ shift' = sh
    /\ batch_idx' = 0
    /\ pred_log' = <<>>
    /\ pc' = "test_loop"
    /\ UNCHANGED <<ds_vars, net_vars, train_n, test_n, epoch, grad, output, loss, lr, opt_steps,
                   last_epoch, stdout, ops, phases>>

\* Mutant of TestBatch: the test loop also takes an optimizer step.
TestBatch_Step(q) ==
    /\ pc = "test_loop"
    /\ batch_idx < NumBatches(test_n)
    /\ correct' = correct + Cardinality({ i \in TestBatch_(test_n, shift, batch_idx) :
                                            Pred(q, i) = Label(i) })
    /\ pred_log' = Append(pred_log, q)
    /\ output' = [kind |-> "output", epoch |-> epoch, batch |-> batch_idx,
                  rows |-> BatchLen(test_n, batch_idx), version |-> Len(model.params)]
    /\ model' = [model EXCEPT !.params = Append(@, [grad |-> grad, lr |-> lr])]
    /\ batch_idx' = batch_idx + 1
    /\ UNCHANGED <<ds_vars, net_vars, train_n, test_n, epoch, pc, grad, loss, lr,
                   opt_steps, last_epoch, shift, stdout, ops, phases>>

\* Lines 374-380: one test batch; the network's arg-max classes follow
\* pattern q.
TestBatch(q) ==
    /\ pc = "test_loop"
    /\ batch_idx < NumBatches(test_n)
    /\ correct' = correct + Cardinality({ i \in TestBatch_(test_n, shift, batch_idx) :
                                            Pred(q, i) = Label(i) })
    /\ pred_log' = Append(pred_log, q)
    /\ output' = [kind |-> "output", epoch |-> epoch, batch |-> batch_idx,
                  rows |-> BatchLen(test_n, batch_idx), version |-> Len(model.params)]
    /\ model' = IF model.training
                THEN [model EXCEPT !.tracked = model.tracked + 1]
                ELSE model
    /\ batch_idx' = batch_idx + 1
    /\ UNCHANGED <<ds_vars, net_vars, train_n, test_n, epoch, pc, grad, loss, lr, opt_steps,
                   last_epoch, shift, stdout, ops, phases>>

\* Lines 381-383: the accuracy line; the division raises ZeroDivisionError
\* when the test set is empty.
TestPrint ==
    /\ pc = "test_loop"
    /\ batch_idx >= NumBatches(test_n)
    /\ IF test_n = 0
       THEN /\ pc' = "crashed"
            /\ stdout' = [kind |-> "ZeroDivisionError"]
            /\ UNCHANGED phases
       ELSE /\ stdout' = [kind |-> "test", epoch |-> epoch, correct |-> correct,
                          total |-> test_n, percent |-> Percent(correct, test_n)]
            /\ phases' = Append(phases, <<"test", epoch>>)
            /\ pc' = "tested"
    /\ UNCHANGED <<ds_vars, net_vars, train_n, test_n, epoch, batch_idx, model, grad, output, loss,
                   lr, opt_steps, last_epoch, correct, shift, ops, pred_log>>

\* Line 408: test(model, epoch) has returned, its locals and its iterator
\* are gone; the next value of the range.
EpochNext ==
    /\ pc = "tested"
    /\ epoch' = epoch + 1
    /\ correct' = Unbound
    /\ shift' = 0
    /\ pred_log' = <<>>
    /\ pc' = "epoch"
    /\ UNCHANGED <<ds_vars, net_vars, train_n, test_n, batch_idx, model, grad, output,
                   loss, lr, opt_steps, last_epoch, stdout, ops, phases>>

Next ==
    \/ EpochHead
    \/ TrainBegin
    \/ ZeroGrad
    \/ Forward
    \/ NllLoss
    \/ Backward
    \/ OptimizerStep
    \/ Log
    \/ TrainEnd
    \/ \E sh \in 0..MaxShift : TestBegin(sh)
    \/ \E q \in 0..MaxPattern : TestBatch(q)
    \/ TestPrint
    \/ EpochNext

Spec == Init /\ [][Next]_vars

(***************************************************************************)
(* The dataset accessor.                                                   *)
(***************************************************************************)

(***************************************************************************)
(* Metadata: a row holds the columns the code reads, iloc[i, 0] (file      *)
(* name), iloc[i, 5] (fold) and iloc[i, 6] (classID).  File names are      *)
(* unique per row, as in the corpus.                                       *)
(***************************************************************************)
Folds == {1, 10}
ClassIDs == {0, 9}
RowOf(n, f, c) == [name |-> n, fold |-> f, classID |-> c]
Tables ==
    UNION { { [i \in 1..k |-> RowOf(i, fc[i][1], fc[i][2])] :
                fc \in [1..k -> Folds \X ClassIDs] } : k \in 0..MaxRows }
\* range(1,10) and [10] are the two lists the notebook passes; {} matches no row.
FolderLists == {1..9, {10}, {}, 1..10}

(***************************************************************************)
(* Audio files: a recording of n frames and ch channels.  Raw(w, i, c) is  *)
(* the amplitude of frame i in channel c; the two channels differ by an    *)
(* even amount so that their mean is an integer.                           *)
(***************************************************************************)
Lengths ==
    (0..MaxShort) \cup { Stride * d + 1 : d \in 0..MaxShort }
      \cup { SrcLen + d : d \in (0 - MaxDelta)..MaxDelta }
      \cup { SrcLen + Stride * MaxDelta }
Waves == [n : Lengths, ch : {1, 2}, base : 1..MaxBase]
Raw(w, i, c) == w.base + i + 2 * c * w.base

\* torchaudio.load(path, out = None, normalization = True): an [n x ch] tensor.
\* A tensor is a function over 0..n-1; its size is carried beside it.
load(w) == [i \in 0..(w.n - 1) |-> [c \in 0..(w.ch - 1) |-> Raw(w, i, c)]]

\* One recording with frames both inside and outside the decimation grid.
DefaultWave == [n |-> Stride + 1, ch |-> 2, base |-> 1]

RECURSIVE SumCh(_, _)
SumCh(fr, c) == IF c < 0 THEN 0 ELSE fr[c] + SumCh(fr, c - 1)

\* torchaudio.transforms.DownmixMono(): [n x ch] -> [n x 1], the mean over the
\* channels when there is more than one.
mixer(t, n, ch) ==
    [i \in 0..(n - 1) |-> IF ch > 1 THEN SumCh(t[i], ch - 1) \div ch ELSE t[i][0]]

zeros(n) == [i \in 0..(n - 1) |-> 0]

\* Python/torch slicing along dimension 0 of an n-row tensor:
\* t[start:stop:step], with stop clamped to n.
SliceLen(n, start, stop, step) ==
    LET hi == Min(stop, n)
    IN  IF hi <= start THEN 0 ELSE (hi - start + step - 1) \div step
Slice(t, n, start, stop, step) ==
    [j \in 0..(SliceLen(n, start, stop, step) - 1) |-> t[start + j * step]]

\* t[:stop] = src, for an n-row t and an m-row src, is accepted when src has
\* as many rows as the slice, or one row (broadcast); otherwise torch raises
\* RuntimeError.
AssignOK(n, stop, m) == m = SliceLen(n, 0, stop, 1) \/ m = 1
Assign(t, n, stop, src, m) ==
    [i \in 0..(n - 1) |->
        IF i < SliceLen(n, 0, stop, 1)
        THEN (IF m = 1 THEN src[0] ELSE src[i])
        ELSE t[i]]

\* Mutant of tempDataOK: the else branch assigns soundData[:] untruncated.
tempDataOK_NoTrunc(numel) ==
    IF numel < SrcLen
    THEN AssignOK(SrcLen, numel, numel)
    ELSE AssignOK(SrcLen, SrcLen, numel)

\* Lines 194-200: the 160000-row tempData holding the recording's prefix;
\* numel is soundData.numel().
tempDataOK(numel) ==
    IF numel < SrcLen
    THEN AssignOK(SrcLen, numel, numel)
    ELSE AssignOK(SrcLen, SrcLen, SliceLen(numel, 0, SrcLen, 1))
tempData(soundData, numel) ==
    IF numel < SrcLen
    THEN Assign(zeros(SrcLen), SrcLen, numel, soundData, numel)
    ELSE Assign(zeros(SrcLen), SrcLen, SrcLen,
                Slice(soundData, numel, 0, SrcLen, 1), SliceLen(numel, 0, SrcLen, 1))

\* Mutant of soundFormatted: the stride starts at row 1 (soundData[1::5]).
soundFormatted_Off(t) ==
    Assign(zeros(OutLen), OutLen, OutLen, Slice(t, SrcLen, 1, SrcLen, Stride),
           SliceLen(SrcLen, 1, SrcLen, Stride))

\* Lines 201-203: every fifth row of the 160000-row soundData, assigned to
\* the first 32000 rows of a zero tensor and permuted to 1 x 32000.
DecimatedLen == SliceLen(SrcLen, 0, SrcLen, Stride)
soundFormattedOK == AssignOK(OutLen, OutLen, DecimatedLen)
soundFormatted(t) ==
    Assign(zeros(OutLen), OutLen, OutLen, Slice(t, SrcLen, 0, SrcLen, Stride),
           DecimatedLen)

Init_Data ==
    /\ \/ csvData \in Tables /\ corpus = {DefaultWave}
       \/ csvData = <<RowOf(1, 1, 0)>> /\ corpus = Waves
    /\ folderList \in FolderLists
    /\ file_names = <<>>
    /\ labels = <<>>
    /\ folders = <<>>
    /\ row = 0
    /\ ds_pc = "init"
    /\ item = NoItem
    /\ Idle_Loop
    /\ Idle_Net

\* Mutant of InitRow: the label is appended for every row.
InitRow_AllLabels ==
    /\ ds_pc = "init"
    /\ row < Len(csvData)
    /\ labels' = Append(labels, csvData[row + 1].classID)
    /\ IF csvData[row + 1].fold \in folderList
       THEN /\ file_names' = Append(file_names, csvData[row + 1].name)
            /\ folders' = Append(folders, csvData[row + 1].fold)
       ELSE UNCHANGED <<file_names, folders>>
    /\ row' = row + 1
    /\ UNCHANGED <<csvData, corpus, folderList, ds_pc, item, loop_vars, net_vars>>

\* Lines 177-181: one iteration of the loop over the csv entries.
InitRow ==
    /\ ds_pc = "init"
    /\ row < Len(csvData)
    /\ IF csvData[row + 1].fold \in folderList
       THEN /\ file_names' = Append(file_names, csvData[row + 1].name)
            /\ labels' = Append(labels, csvData[row + 1].classID)
            /\ folders' = Append(folders, csvData[row + 1].fold)
       ELSE UNCHANGED <<file_names, labels, folders>>
    /\ row' = row + 1
    /\ UNCHANGED <<csvData, corpus, folderList, ds_pc, item, loop_vars, net_vars>>

\* Lines 183-185: the loop is over; the dataset is constructed.
InitDone ==
    /\ ds_pc = "init"
    /\ row = Len(csvData)
    /\ ds_pc' = "ready"
    /\ UNCHANGED <<csvData, corpus, folderList, file_names, labels, folders, row, item,
                   loop_vars, net_vars>>

\* Lines 206-207.
len_ == Len(file_names)

\* Lines 187-204: __getitem__(index); the file at the path holds recording w.
GetItem(index, w) ==
    /\ ds_pc = "ready"
    /\ item = NoItem
    /\ IF index >= Len(folders) \/ index >= Len(file_names)
       THEN item' = [kind |-> "IndexError", index |-> index]
       ELSE LET path == <<folders[index + 1], file_names[index + 1]>>
                numel == w.n
                soundData == mixer(load(w), w.n, w.ch)
            IN  IF ~tempDataOK(numel) \/ ~soundFormattedOK
                THEN item' = [kind |-> "RuntimeError", index |-> index]
                ELSE IF index >= Len(labels)
                THEN item' = [kind |-> "IndexError", index |-> index]
                ELSE item' = [kind |-> "sample", index |-> index, path |-> path,
                              wave |-> w,
                              data |-> soundFormatted(tempData(soundData, numel)),
                              label |-> labels[index + 1]]
    /\ UNCHANGED <<csvData, corpus, folderList, file_names, labels, folders, row, ds_pc,
                   loop_vars, net_vars>>

\* The caller takes the returned (soundFormatted, label) pair.
Return ==
    /\ item # NoItem
    /\ item' = NoItem
    /\ UNCHANGED <<csvData, corpus, folderList, file_names, labels, folders, row, ds_pc,
                   loop_vars, net_vars>>

Next_Data ==
    \/ InitRow
    \/ InitDone
    \/ \E index \in 0..MaxRows : \E w \in corpus : GetItem(index, w)
    \/ Return

SpecData == Init_Data /\ [][Next_Data]_vars

(***************************************************************************)
(* Properties.                                                             *)
(***************************************************************************)

\* C1: __getitem__ called with an index of the dataset returns, for a
\* recording of any length (empty, shorter than 160000, exactly 160000,
\* longer), a waveform of exactly 32000 values and never anything else.
C1_FixedLength ==
    (item.kind # "none" /\ item.index < Len(file_names)) =>
        /\ item.kind = "sample"
        /\ DOMAIN item.data = 0..(OutLen - 1)
C1_Witness ==
    /\ item.kind = "sample"
    /\ item.wave.n > SrcLen
    /\ DOMAIN item.data = 0..(OutLen - 1)

\* C2: with s the mono waveform of n frames, the returned waveform has
\* out[k] = s[5k] where 5k < min(n, 160000) and out[k] = 0 elsewhere.
C2_Decimation ==
    item.kind = "sample" =>
        item.data =
            [k \in 0..(OutLen - 1) |->
                IF Stride * k < Min(item.wave.n, SrcLen)
                THEN mixer(load(item.wave), item.wave.n, item.wave.ch)[Stride * k]
                ELSE 0]
C2_Witness ==
    /\ item.kind = "sample"
    /\ item.wave.n > Stride
    /\ item.wave.n < SrcLen
    /\ item.data[1] # 0
    /\ item.data[OutLen - 1] = 0

\* C3: the dataset holds exactly the metadata rows whose fold is in the
\* folder list, in metadata order; the three lists stay aligned, __len__ is
\* the number of matching rows, and __getitem__(i) takes its file name, fold
\* and label from the i-th matching row.
Matching == SelectSeq(csvData, LAMBDA r : r.fold \in folderList)
C3_FoldFilter ==
    /\ Len(file_names) = Len(labels)
    /\ Len(labels) = Len(folders)
    /\ ds_pc = "ready" =>
        /\ len_ = Len(Matching)
        /\ \A i \in 1..Len(Matching) :
              /\ file_names[i] = Matching[i].name
              /\ folders[i] = Matching[i].fold
              /\ labels[i] = Matching[i].classID
    /\ item.kind = "sample" =>
        /\ item.path = <<Matching[item.index + 1].fold, Matching[item.index + 1].name>>
        /\ item.label = Matching[item.index + 1].classID
        /\ Matching[item.index + 1].fold \in folderList
C3_Witness ==
    /\ item.kind = "sample"
    /\ item.index = 0
    /\ Len(csvData) = 2
    /\ csvData[1].fold \notin folderList
    /\ csvData[1].classID # csvData[2].classID
    /\ item.label = csvData[2].classID

\* C4: for any training and test set the run consists of train(1), test(1),
\* ..., train(10), test(10) in this order, and stops only after test(10).
NumEpochs == StopEpoch - FirstEpoch
ExpectedPhases ==
    [k \in 1..(2 * NumEpochs) |->
        IF k % 2 = 1 THEN <<"train", FirstEpoch + (k - 1) \div 2>>
        ELSE <<"test", FirstEpoch + (k - 2) \div 2>>]
PhaseOrder ==
    /\ Len(phases) <= Len(ExpectedPhases)
    /\ phases = SubSeq(ExpectedPhases, 1, Len(phases))
C4_TenEpochs ==
    /\ PhaseOrder
    /\ pc \in {"done", "crashed"} => phases = ExpectedPhases

\* C5: on an empty test set test() gives a defined result without raising,
\* and the epoch loop goes on.
C5_EmptyTestSet == test_n = 0 => pc # "crashed"

\* C6: during the run the scheduler lowers the learning rate from 0.01 to
\* 0.001, so that some epochs train at 0.01 and later ones at 0.001.
C6_LrDecays ==
    pc = "done" =>
        /\ lr = BaseLr \div GammaDiv
        /\ train_n > 0 =>
            /\ \E j \in 1..Len(model.params) : model.params[j].lr = BaseLr
            /\ \E j \in 1..Len(model.params) : model.params[j].lr = BaseLr \div GammaDiv

\* C7: the accuracy line of test() reports as correct the number of test
\* samples whose predicted class equals their label, counted from 0 in every
\* call, at most the test-set size reported as total, with the percentage
\* 100 * correct / total (printed to the nearest integer); when every
\* prediction matches, it reports 100%.
\* The batch that held sample i in the epoch's order, and the class the
\* network predicted for it.
BatchOf(i) == ((i + test_n - shift) % test_n) \div BatchSize
Predicted(i) == Pred(pred_log[BatchOf(i) + 1], i)
Hits == Cardinality({ i \in 0..(test_n - 1) : Predicted(i) = Label(i) })
C7_Accuracy ==
    /\ (pc = "test_loop" /\ batch_idx = 0) => correct = 0
    /\ pc = "tested" =>
        /\ stdout.kind = "test"
        /\ Len(pred_log) = NumBatches(test_n)
        /\ stdout.correct = Hits
        /\ stdout.total = test_n
        /\ stdout.correct <= stdout.total
        /\ 2 * (stdout.percent * stdout.total - 100 * stdout.correct) <= stdout.total
        /\ 2 * (100 * stdout.correct - stdout.percent * stdout.total) <= stdout.total
        /\ Hits = test_n => stdout.percent = 100
C7_Witness ==
    /\ pc = "tested"
    /\ epoch > FirstEpoch
    /\ test_n > BatchSize
    /\ Hits = test_n
    /\ stdout.percent = 100

\* C8: in train() every batch runs zero_grad, forward, nll_loss, backward and
\* optimizer step in this order; an epoch takes as many optimizer steps as
\* it has batches, and the gradient of each step is that of its batch alone.
TrainBody == <<"zero_grad", "forward", "nll_loss", "backward", "step">>
BatchOfStep(j) ==
    [epoch |-> FirstEpoch + (j - 1) \div NumBatches(train_n),
     batch |-> (j - 1) % NumBatches(train_n)]
C8_TrainStep ==
    /\ Len(ops) <= Len(TrainBody)
    /\ ops = SubSeq(TrainBody, 1, Len(ops))
    /\ pc = "log" => ops = TrainBody
    /\ opt_steps = Len(model.params)
    /\ pc \in {"test", "test_loop", "tested"} =>
          opt_steps = (epoch - FirstEpoch + 1) * NumBatches(train_n)
    /\ \A j \in 1..Len(model.params) : model.params[j].grad = <<BatchOfStep(j)>>
C8_Witness ==
    /\ pc = "test"
    /\ epoch > FirstEpoch
    /\ NumBatches(train_n) > 1
    /\ opt_steps = (epoch - FirstEpoch + 1) * NumBatches(train_n)

\* C9: the parameters change only in the optimizer step of train(), with
\* the model in training mode; test(), the scheduler step and the move to
\* the next epoch leave them as they are.
C9_ParamsFrame ==
    [][model.params' # model.params =>
          (pc = "step" /\ pc' = "log" /\ model.training)]_vars
C9_Witness ==
    /\ pc = "train"
    /\ epoch > FirstEpoch
    /\ Len(model.params) > 0
    /\ ~model.training

\* C10: on a 1 x 32000 input the length shrinks strictly at each of conv1,
\* pool1, ..., conv4, pool4, is 30 with 512 channels before the average
\* pool, 1 after it, and forward returns 10 scores per sample.
Shrinking == {"conv1", "pool1", "conv2", "pool2", "conv3", "pool3", "conv4", "pool4"}
C10_Shapes ==
    (fpc > 0 /\ net_in[2] = 1 /\ net_in[3] = OutLen) =>
        /\ x # ShapeError
        /\ \A k \in 1..(Len(trace) - 1) :
              forward[k] \in Shrinking => trace[k + 1][3] < trace[k][3]
        /\ fpc > 12 => trace[13] = <<net_in[1], 512, 30>>
        /\ fpc > 13 => trace[14] = <<net_in[1], 512, 1>>
        /\ fpc > Len(forward) => x = <<net_in[1], 1, NumClasses>>
C10_Witness ==
    /\ net_in = <<1, 1, OutLen>>
    /\ fpc > Len(forward)
    /\ x = <<1, 1, NumClasses>>

====
